---- MODULE Spec2Model ----
(***************************************************************************)
(* A model of landlab's Flexure component                                  *)
(* (src/landlab/components/flexure/flexure.py).                            *)
(*                                                                         *)
(* Numbers.  The component computes with floats; the model computes with   *)
(* exact rationals <<n, d>> (d > 0, lowest terms).  The Kelvin function    *)
(* kei and the constant pi are not evaluated: a flexural deflection is a   *)
(* linear form over symbols, each symbol standing for                      *)
(*      kei(r / alpha_table) / (pi * alpha_call^2)                         *)
(* and named by the kernel-table entry and by the alpha handed to the      *)
(* dispatcher.  alpha is a fourth root, so it is carried as alpha^4, and   *)
(* a kernel-table entry kei(x) is carried as x^4 = (r^2)^2 / alpha^4.      *)
(* A deflection value is [one |-> q, kei |-> T]: the rational q plus the   *)
(* sum of c * symbol over the pairs <<symbol, c>> of the set T.            *)
(***************************************************************************)
EXTENDS Integers, FiniteSets

VARIABLES
    shape,        \* grid.shape = <<rows, cols>>
    spacing,      \* <<grid.dy, grid.dx>>
    load,         \* grid.at_node["lithosphere__overlying_pressure_increment"]
    hasDefl,      \* the grid holds "lithosphere_surface__elevation_increment"
    deflection,   \* grid.at_node["lithosphere_surface__elevation_increment"]
    pc,           \* "new", "failed", "idle", "running" (workers inside a solve)
    attrs,        \* the attributes of self that have been assigned
    method,       \* self._method
    eet,          \* self._eet
    youngs,       \* self._youngs
    rho_mantle,   \* self._rho_mantle
    gravity,      \* self._gravity
    n_procs,      \* self._n_procs
    r,            \* self._r, the kernel table
    err,          \* the exception the last call raised, or "none"
    lastOp,       \* the call that ran last (or is running)
    lastArg,      \* its arguments: <<method, eet>> of __init__, <<new_val>> of eet
    touched,      \* the grid-field accesses made by the last call
    scaled,       \* the temporary load * dx * dy handed to the dispatcher
    out,          \* the out array of subside_loads: [kind, val]
    todo,         \* the workers of the running dispatch that have not run yet
    writes,       \* how many values the caller has written to the load field
    dirty,        \* the load field was written since update() last ran
    synced,       \* update() ran on the current load field and parameters
    preJunk       \* the last call is a solve whose output buffer held a
                  \* non-zero value when it began

vars == <<shape, spacing, load, hasDefl, deflection, pc, attrs, method, eet,
          youngs, rho_mantle, gravity, n_procs, r, err, lastOp, lastArg,
          touched, scaled, out, todo, writes, dirty, synced, preJunk>>

(***************************************************************************)
(* Bounds of the model.                                                    *)
(***************************************************************************)
MaxNodes == 4
MaxWrites == 2
MaxProcs == 2

Shapes == {s \in (1..MaxNodes) \X (1..MaxNodes) : s[1] * s[2] <= MaxNodes}
Spacings == {<<1, 2>>}
LoadVals == {-1, 0, 2}
EetVals == {0, 1, 2}
Methods == {"airy", "flexure", "bogus"}
YoungsVals == {3}
RhoVals == {2}
GravityVals == {1}

(***************************************************************************)
(* Exact rationals.                                                        *)
(***************************************************************************)
Abs(x) == IF x < 0 THEN -x ELSE x

RECURSIVE GCD(_, _)
GCD(a, b) == IF b = 0 THEN a ELSE GCD(b, a % b)

Rat(n, d) ==
    LET g == GCD(Abs(n), Abs(d))
        s == IF d < 0 THEN -1 ELSE 1
    IN  <<(s * n) \div g, (s * d) \div g>>

RZero == <<0, 1>>
RAdd(a, b) == Rat(a[1] * b[2] + b[1] * a[2], a[2] * b[2])
RMul(a, b) == Rat(a[1] * b[1], a[2] * b[2])

RECURSIVE RSum(_, _)
\* the sum of f[x] over the finite set S
RSum(f, S) ==
    IF S = {} THEN RZero
    ELSE LET x == CHOOSE y \in S : TRUE IN RAdd(f[x], RSum(f, S \ {x}))

(***************************************************************************)
(* Deflection values and fields.                                           *)
(***************************************************************************)
VZero == [one |-> RZero, kei |-> {}]
VRat(q) == [one |-> q, kei |-> {}]

Nodes(sh) == 0 .. (sh[1] * sh[2] - 1)
RowOf(sh, n) == n \div sh[2]
ColOf(sh, n) == n % sh[2]
Zeros(sh) == [n \in Nodes(sh) |-> VZero]
ZeroLoad(sh) == [n \in Nodes(sh) |-> 0]
Junk(sh) == [n \in Nodes(sh) |-> VRat(<<1, 1>>)]

NoOut == [kind |-> "none", val |-> <<>>]

(***************************************************************************)
(* Material parameters.                                                    *)
(***************************************************************************)
\* Flexure.gamma_mantle
gamma_mantle == rho_mantle * gravity

\* get_flexure_parameter(eet, youngs, 2, gamma_mantle), as alpha^4:
\* D = youngs * eet^3 / (12 * (1 - nu^2)), alpha^4 = 4 * D / gamma, nu = 1/4.
FlexureParameter4(h, E, gm) == Rat(16 * E * h * h * h, 45 * gm)

\* Flexure.alpha
alpha == FlexureParameter4(eet, youngs, gamma_mantle)

\* Flexure._create_kei_func_grid(shape, xy_spacing, alpha): entry [i, j] is
\* kei(sqrt((j * dx)^2 + (i * dy)^2) / alpha), carried as its argument's
\* fourth power.
CreateKeiFuncGrid(sh, xy_spacing, a4) ==
    [ij \in (0 .. sh[1] - 1) \X (0 .. sh[2] - 1) |->
        LET dx == ij[2] * xy_spacing[2]
            dy == ij[1] * xy_spacing[1]
            r2 == dx * dx + dy * dy
        IN  Rat(r2 * r2 * a4[2], a4[1])]

(***************************************************************************)
(* The dispatcher subside_grid_in_parallel (cfuncs, not among the sources: *)
(* modelled from the specification, section 4.4).                          *)
(***************************************************************************)
\* a faulty variant: blocks of rows \div n rows each; the remaining rows get no worker
BlockFloor(w, n, rows) ==
    {i \in 0 .. rows - 1 : w * (rows \div n) <= i /\ i < (w + 1) * (rows \div n)}

\* the rows of worker w of n: contiguous row ranges
Block(w, n, rows) ==
    {i \in 0 .. rows - 1 : (w * rows) \div n <= i /\ i < ((w + 1) * rows) \div n}

\* deflection[q] = sum over the loaded nodes p of
\*   load[p] * (2 / (pi * alpha^2 * gamma)) * table[|qi - pi|, |qj - pj|]
SubsideNode(q, sh, ld, tbl, a4, gm) ==
    LET Loaded == {p \in Nodes(sh) : ld[p] # 0}
        Sym(p) == <<tbl[<<Abs(RowOf(sh, q) - RowOf(sh, p)),
                          Abs(ColOf(sh, q) - ColOf(sh, p))>>], a4>>
        coef == [p \in Loaded |-> Rat(2 * ld[p], gm)]
        Terms == {<<s, RSum(coef, {p \in Loaded : Sym(p) = s})>> :
                      s \in {Sym(p) : p \in Loaded}}
    IN  [one |-> RZero, kei |-> {t \in Terms : t[2][1] # 0}]

\* one worker: the target nodes of its rows are written, the others kept
SubsideRows(dz, rows, sh, ld, tbl, a4, gm) ==
    [q \in Nodes(sh) |->
        IF RowOf(sh, q) \in rows THEN SubsideNode(q, sh, ld, tbl, a4, gm)
        ELSE dz[q]]

(***************************************************************************)
(* The component.                                                          *)
(***************************************************************************)
grid == <<shape, spacing>>
params == <<method, youngs, rho_mantle, gravity, n_procs>>
caller == <<writes, dirty>>

Init ==
    /\ shape \in Shapes
    /\ spacing \in Spacings
    /\ load = ZeroLoad(shape)
    /\ hasDefl \in BOOLEAN
    /\ deflection = IF hasDefl THEN Junk(shape) ELSE Zeros(shape)
    /\ pc = "new"
    /\ attrs = {}
    /\ method = "unset"
    /\ eet = 0
    /\ youngs = 0
    /\ rho_mantle = 0
    /\ gravity = 0
    /\ n_procs = 0
    /\ r = <<>>
    /\ err = "none"
    /\ lastOp = "none"
    /\ lastArg = <<>>
    /\ touched = {}
    /\ scaled = <<>>
    /\ out = NoOut
    /\ todo = {}
    /\ writes = 0
    /\ dirty = FALSE
    /\ synced = FALSE
    /\ preJunk = FALSE

\* a faulty variant: the method is not validated
MethodOkAny(m) == TRUE

\* method in ("airy", "flexure")
MethodOk(m) == m \in {"airy", "flexure"}

\* Flexure.__init__(grid, eet, youngs, method, rho_mantle, gravity, n_procs)
Construct(m, e, E, rho, g, np) ==
    /\ pc = "new"
    /\ lastOp' = "construct"
    /\ lastArg' = <<m, e>>
    /\ UNCHANGED <<grid, load, scaled, out, todo, caller, synced, preJunk>>
    /\ IF ~MethodOk(m)
       THEN /\ pc' = "failed"
            /\ err' = "UnsupportedMethod"
            /\ touched' = {}
            /\ UNCHANGED <<hasDefl, deflection, attrs, params, eet, r>>
       ELSE /\ youngs' = E
            /\ method' = m
            /\ rho_mantle' = rho
            /\ gravity' = g
            /\ IF e <= 0
               THEN /\ pc' = "failed"
                    /\ err' = "InvalidParameter"
                    /\ touched' = {}
                    /\ attrs' = {"_grid", "_youngs", "_method", "_rho_mantle",
                                 "_gravity"}
                    /\ UNCHANGED <<hasDefl, deflection, eet, n_procs, r>>
               ELSE /\ pc' = "idle"
                    /\ err' = "none"
                    /\ eet' = e
                    /\ n_procs' = np
                    /\ hasDefl' = TRUE
                    /\ deflection' = IF hasDefl THEN deflection ELSE Zeros(shape)
                    /\ touched' = IF hasDefl THEN {} ELSE {"create:deflection"}
                    /\ r' = CreateKeiFuncGrid(shape, spacing,
                                FlexureParameter4(e, E, rho * g))
                    /\ attrs' = {"_grid", "_youngs", "_method", "_rho_mantle",
                                 "_gravity", "_eet", "_r", "_n_procs"}

\* a faulty variant: the setter keeps the kernel table it has
SetEetStale(new_val) ==
    /\ pc = "idle"
    /\ ~dirty
    /\ lastOp' = "eet"
    /\ lastArg' = <<new_val>>
    /\ touched' = {}
    /\ out' = NoOut
    /\ preJunk' = FALSE
    /\ UNCHANGED <<grid, load, hasDefl, deflection, pc, attrs, params, scaled,
                   todo, caller, r>>
    /\ IF new_val <= 0
       THEN /\ err' = "InvalidParameter"
            /\ UNCHANGED <<eet, synced>>
       ELSE /\ err' = "none"
            /\ eet' = new_val
            /\ synced' = (synced /\ new_val = eet)

\* a faulty variant: the setter stores the value before it validates it
SetEetAssignFirst(new_val) ==
    /\ pc = "idle"
    /\ ~dirty
    /\ lastOp' = "eet"
    /\ lastArg' = <<new_val>>
    /\ touched' = {}
    /\ out' = NoOut
    /\ preJunk' = FALSE
    /\ UNCHANGED <<grid, load, hasDefl, deflection, pc, attrs, params, scaled,
                   todo, caller>>
    /\ eet' = new_val
    /\ IF new_val <= 0
       THEN /\ err' = "InvalidParameter"
            /\ UNCHANGED <<r, synced>>
       ELSE /\ err' = "none"
            /\ synced' = (synced /\ new_val = eet)
            /\ r' = CreateKeiFuncGrid(shape, spacing,
                        FlexureParameter4(new_val, youngs, gamma_mantle))

\* Flexure.eet = new_val.  The caller of the model sets eet between time
\* steps: not while the load field holds values update() has not seen.
SetEet(new_val) ==
    /\ pc = "idle"
    /\ ~dirty
    /\ lastOp' = "eet"
    /\ lastArg' = <<new_val>>
    /\ touched' = {}
    /\ out' = NoOut
    /\ preJunk' = FALSE
    /\ UNCHANGED <<grid, load, hasDefl, deflection, pc, attrs, params, scaled,
                   todo, caller>>
    /\ IF new_val <= 0
       THEN /\ err' = "InvalidParameter"
            /\ UNCHANGED <<eet, r, synced>>
       ELSE /\ err' = "none"
            /\ eet' = new_val
            /\ synced' = (synced /\ new_val = eet)
            /\ r' = CreateKeiFuncGrid(shape, spacing,
                        FlexureParameter4(new_val, youngs, gamma_mantle))

\* the caller writes one value of the load field
SetLoad(n, v) ==
    /\ pc = "idle"
    /\ load[n] # v
    /\ load' = [load EXCEPT ![n] = v]
    /\ writes < MaxWrites
    /\ writes' = writes + 1
    /\ dirty' = TRUE
    /\ synced' = FALSE
    /\ preJunk' = FALSE
    /\ lastOp' = "set_load"
    /\ lastArg' = <<>>
    /\ err' = "none"
    /\ touched' = {}
    /\ out' = NoOut
    /\ UNCHANGED <<grid, hasDefl, deflection, pc, attrs, params, eet, r, scaled,
                   todo>>

\* a faulty variant: deflection[:] = new_load * self.gamma_mantle
UpdateAiryTimes(dz, new_load, gm) ==
    [n \in DOMAIN dz |-> VRat(Rat(new_load[n] * gm, 1))]

\* a faulty variant: only the loaded nodes are written, and the buffer is not cleared
UpdateAirySkipZero(dz, new_load, gm) ==
    [n \in DOMAIN dz |->
        IF new_load[n] # 0 THEN VRat(Rat(new_load[n], gm)) ELSE dz[n]]

\* a faulty variant: deflection[:] += new_load / self.gamma_mantle, the buffer not cleared
UpdateAiryAccumulate(dz, new_load, gm) ==
    [n \in DOMAIN dz |->
        [one |-> RAdd(dz[n].one, Rat(new_load[n], gm)), kei |-> dz[n].kei]]

\* deflection.fill(0.0); deflection[:] = new_load / self.gamma_mantle
UpdateAiry(dz, new_load, gm) ==
    [n \in DOMAIN dz |-> VRat(Rat(new_load[n], gm))]

\* a faulty variant: loads * self._grid.dx + self._grid.dy
ScaledLoadAffine(loads, sp) == [n \in DOMAIN loads |-> loads[n] * sp[2] + sp[1]]

\* loads * self._grid.dx * self._grid.dy
ScaledLoad(loads, sp) == [n \in DOMAIN loads |-> loads[n] * sp[2] * sp[1]]

\* the worker count handed to the dispatcher
NumThreads == n_procs

\* a faulty variant: the method string is tested for truth, not compared
IsAiryTruthy == method # ""

\* self.method == "airy"
IsAiry == method = "airy"

\* Flexure.update()
Update ==
    /\ pc = "idle"
    /\ lastOp' = "update"
    /\ lastArg' = <<>>
    /\ err' = "none"
    /\ touched' = {"read:load", "write:deflection"}
    /\ dirty' = FALSE
    /\ synced' = TRUE
    /\ preJunk' = (deflection # Zeros(shape))
    /\ UNCHANGED <<grid, load, hasDefl, attrs, params, eet, r, writes>>
    /\ LET new_load == load
       IN  IF IsAiry
           THEN /\ deflection' = UpdateAiry(deflection, new_load, gamma_mantle)
                /\ out' = NoOut
                /\ UNCHANGED <<pc, scaled, todo>>
           ELSE /\ deflection' = Zeros(shape)
                /\ out' = [kind |-> "field", val |-> <<>>]
                /\ scaled' = ScaledLoad(new_load, spacing)
                /\ todo' = 0 .. NumThreads - 1
                /\ pc' = "running"

\* a faulty variant: loads *= dx * dy, in place
SubsideLoadsInPlace(kind) ==
    /\ pc = "idle"
    /\ synced
    /\ lastOp' = "subside_loads"
    /\ lastArg' = <<>>
    /\ err' = "none"
    /\ touched' = {}
    /\ preJunk' = (kind = "caller")
    /\ out' = [kind |-> kind,
               val |-> IF kind = "fresh" THEN Zeros(shape) ELSE Junk(shape)]
    /\ load' = [n \in DOMAIN load |-> load[n] * spacing[2] * spacing[1]]
    /\ scaled' = load'
    /\ todo' = 0 .. n_procs - 1
    /\ pc' = "running"
    /\ UNCHANGED <<grid, hasDefl, deflection, attrs, params, eet, r, caller,
                   synced>>

\* Flexure.subside_loads(loads, out), called with the grid's load field and
\* with out = None (kind "fresh") or a buffer of the caller's (kind "caller").
\* The caller of the model calls it once update() has run on the current
\* load field and parameters.
SubsideLoads(kind) ==
    /\ pc = "idle"
    /\ synced
    /\ lastOp' = "subside_loads"
    /\ lastArg' = <<>>
    /\ err' = "none"
    /\ touched' = {}
    /\ preJunk' = (kind = "caller")
    /\ out' = [kind |-> kind,
               val |-> IF kind = "fresh" THEN Zeros(shape) ELSE Junk(shape)]
    /\ scaled' = ScaledLoad(load, spacing)
    /\ todo' = 0 .. NumThreads - 1
    /\ pc' = "running"
    /\ UNCHANGED <<grid, load, hasDefl, deflection, attrs, params, eet, r,
                   caller, synced>>

\* one worker of the dispatcher writes its rows of dz
Worker(w) ==
    /\ pc = "running"
    /\ w \in todo
    /\ todo' = todo \ {w}
    /\ LET rows == Block(w, NumThreads, shape[1])
           dz == IF out.kind = "field" THEN deflection ELSE out.val
           new == SubsideRows(dz, rows, shape, scaled, r, alpha, gamma_mantle)
       IN  IF out.kind = "field"
           THEN deflection' = new /\ UNCHANGED out
           ELSE out' = [out EXCEPT !.val = new] /\ UNCHANGED deflection
    /\ UNCHANGED <<grid, load, hasDefl, pc, attrs, params, eet, r, err, lastOp,
                   lastArg, touched, scaled, caller, synced, preJunk>>

\* the dispatcher returns once every worker has run; subside_loads returns out
Join ==
    /\ pc = "running"
    /\ todo = {}
    /\ pc' = "idle"
    /\ scaled' = <<>>
    /\ out' = IF out.kind = "field" THEN NoOut ELSE out
    /\ UNCHANGED <<grid, load, hasDefl, deflection, attrs, params, eet, r, err,
                   lastOp, lastArg, touched, todo, caller, synced, preJunk>>

Next ==
    \/ \E m \in Methods, e \in EetVals, E \in YoungsVals, rho \in RhoVals,
          g \in GravityVals, np \in 1 .. MaxProcs : Construct(m, e, E, rho, g, np)
    \/ \E v \in EetVals : SetEet(v)
    \/ \E n \in Nodes(shape), v \in LoadVals : SetLoad(n, v)
    \/ Update
    \/ \E k \in {"fresh", "caller"} : SubsideLoads(k)
    \/ \E w \in 0 .. MaxProcs - 1 : Worker(w)
    \/ Join

Spec == Init /\ [][Next]_vars

(***************************************************************************)
(* Properties.                                                             *)
(***************************************************************************)
Constructed == pc \in {"idle", "running"}
Loaded == {p \in Nodes(shape) : load[p] # 0}

\* C1: once constructed, and after every eet assignment, accepted or
\* rejected, the stored kernel table is the table of the grid's shape and
\* spacing and of the alpha of the current eet; the deflection a finished
\* flexural update() leaves is built from entries of that table and from
\* that alpha only.
C1_KernelTableCurrent ==
    Constructed =>
        /\ r = CreateKeiFuncGrid(shape, spacing, alpha)
        /\ (pc = "idle" /\ lastOp = "update") =>
               \A n \in Nodes(shape) : \A t \in deflection[n].kei :
                   /\ t[1][2] = alpha
                   /\ \E ij \in DOMAIN r :
                          t[1][1] = CreateKeiFuncGrid(shape, spacing, alpha)[ij]

\* an accepted eet assignment on a grid whose deflection field was computed
\* under another alpha
C1_Witness ==
    /\ pc = "idle" /\ lastOp = "eet" /\ err = "none"
    /\ r = CreateKeiFuncGrid(shape, spacing, alpha)
    /\ \E n \in Nodes(shape) : \E t \in deflection[n].kei : t[1][2] # alpha

\* C3: a constructor call with a method other than "airy" and "flexure"
\* fails with the unsupported-method error, no attribute of the component
\* is set, and no grid field is read, created or written.
C3_BadMethodFailsFirst ==
    (lastOp = "construct" /\ lastArg[1] \notin {"airy", "flexure"}) =>
        /\ pc = "failed"
        /\ err = "UnsupportedMethod"
        /\ attrs = {}
        /\ eet = 0 /\ DOMAIN r = {} /\ method = "unset"
        /\ touched = {}
        /\ load = ZeroLoad(shape)
        /\ deflection = IF hasDefl THEN Junk(shape) ELSE Zeros(shape)

\* a failed construction with method "bogus" on a grid without the output field
C3_Witness ==
    /\ lastOp = "construct" /\ lastArg[1] = "bogus" /\ pc = "failed"
    /\ ~hasDefl

\* C4: an eet <= 0 fails with the invalid-parameter error, in the constructor
\* (which then sets neither eet nor the kernel table and creates no field)
\* and in the setter (which then leaves eet and the kernel table as they were).
C4_NonPositiveEetRejected ==
    [][/\ (lastOp' = "construct" /\ MethodOk(lastArg'[1]) /\ lastArg'[2] <= 0) =>
              /\ pc' = "failed" /\ err' = "InvalidParameter"
              /\ "_eet" \notin attrs' /\ "_r" \notin attrs'
              /\ UNCHANGED <<eet, r, hasDefl, deflection>>
       /\ (lastOp' = "eet" /\ lastArg'[1] <= 0) =>
              /\ err' = "InvalidParameter"
              /\ UNCHANGED <<eet, r>>]_vars

\* a rejected setter call on a constructed component
C4_Witness ==
    /\ pc = "idle" /\ lastOp = "eet" /\ lastArg[1] <= 0
    /\ err = "InvalidParameter" /\ eet = 2
    /\ Cardinality(DOMAIN r) > 1

\* the dispatcher's result for the load field ld with one worker and a
\* buffer of zeros
OneWorker(ld) ==
    SubsideRows(Zeros(shape), Block(0, 1, shape[1]), shape,
                ScaledLoad(ld, spacing), r, alpha, gamma_mantle)

\* C2: with method "airy", update() leaves load / gamma_mantle at every
\* node, and another load at one node gives another deflection at that node
\* and the same deflection at every other node.
C2_AiryElementwise ==
    (pc = "idle" /\ lastOp = "update" /\ method = "airy") =>
        /\ \A n \in Nodes(shape) :
               /\ deflection[n].kei = {}
               /\ deflection[n].one[1] * gamma_mantle = load[n] * deflection[n].one[2]
        /\ \A n \in Nodes(shape) : \A v \in LoadVals \ {load[n]} :
               LET d2 == UpdateAiry(deflection, [load EXCEPT ![n] = v], gamma_mantle)
               IN  /\ d2[n] # deflection[n]
                   /\ \A m \in Nodes(shape) \ {n} : d2[m] = deflection[m]

\* an Airy update() of a load field with a negative and a positive load
C2_Witness ==
    /\ pc = "idle" /\ lastOp = "update" /\ method = "airy"
    /\ \E n, m \in Nodes(shape) : load[n] = -1 /\ load[m] = 2

\* C5: for every worker count the blocks of rows are disjoint and cover the
\* rows; while the workers run, the rows of the finished workers hold the
\* one-worker result and the rows of the others hold what the buffer held;
\* the result of a finished flexural solve is the one-worker result.
C5_WorkerCountInvariant ==
    /\ pc = "running" => \A n \in 1 .. MaxProcs :
           /\ \A i \in 0 .. shape[1] - 1 : \E w \in 0 .. n - 1 : i \in Block(w, n, shape[1])
           /\ \A w1, w2 \in 0 .. n - 1 :
                  w1 # w2 => Block(w1, n, shape[1]) \cap Block(w2, n, shape[1]) = {}
    /\ pc = "running" =>
           LET dz == IF out.kind = "field" THEN deflection ELSE out.val
               before == IF out.kind = "caller" THEN Junk(shape) ELSE Zeros(shape)
               after == OneWorker(load)
           IN  \A w \in 0 .. n_procs - 1 : \A q \in Nodes(shape) :
                   RowOf(shape, q) \in Block(w, n_procs, shape[1]) =>
                       dz[q] = IF w \in todo THEN before[q] ELSE after[q]
    /\ (pc = "idle" /\ lastOp = "update" /\ method = "flexure") =>
           deflection = OneWorker(load)
    /\ (pc = "idle" /\ lastOp = "subside_loads") => out.val = OneWorker(load)

\* a finished flexural update() of a loaded grid whose rows the workers do
\* not share out evenly
C5_Witness ==
    /\ pc = "idle" /\ lastOp = "update" /\ method = "flexure"
    /\ n_procs = 2 /\ shape[1] = 3 /\ Loaded # {}

\* C6: update() of an all-zero load field leaves an all-zero deflection
\* field, with either method, whatever the field held.
C6_ZeroLoadZeroDeflection ==
    (pc = "idle" /\ lastOp = "update" /\ load = ZeroLoad(shape)) =>
        deflection = Zeros(shape)

\* an update() of an all-zero load field that began on a non-zero
\* deflection field
C6_Witness ==
    /\ pc = "idle" /\ lastOp = "update" /\ load = ZeroLoad(shape)
    /\ preJunk /\ writes = 2

\* C7 as stated: subside_loads(load) returns what update() wrote for that
\* load, with either method.
C7_SubsideLoadsIsUpdate ==
    (pc = "idle" /\ lastOp = "subside_loads") => out.val = deflection

\* C7, amended: with method "flexure", subside_loads(load) returns what
\* update() wrote to the deflection field for that load.
C7_SubsideLoadsIsFlexuralUpdate ==
    (pc = "idle" /\ lastOp = "subside_loads" /\ method = "flexure") =>
        out.val = deflection

\* subside_loads after a flexural update() of a field with two loads
C7_Witness ==
    /\ pc = "idle" /\ lastOp = "subside_loads" /\ method = "flexure"
    /\ Cardinality(Loaded) = 2

\* linear forms: a * u and u + v
VScale(a, u) ==
    [one |-> RMul(<<a, 1>>, u.one),
     kei |-> IF a = 0 THEN {} ELSE {<<t[1], RMul(<<a, 1>>, t[2])>> : t \in u.kei}]

VCoef(T, s) == IF \E t \in T : t[1] = s THEN (CHOOSE t \in T : t[1] = s)[2] ELSE RZero

VAdd(u, v) ==
    LET sum == {<<s, RAdd(VCoef(u.kei, s), VCoef(v.kei, s))>> :
                    s \in {t[1] : t \in u.kei \cup v.kei}}
    IN  [one |-> RAdd(u.one, v.one), kei |-> {t \in sum : t[2][1] # 0}]

ScalarPairs == {<<2, -1>>, <<-1, 3>>}
PointLoad(p, v) == [n \in Nodes(shape) |-> IF n = p THEN v ELSE 0]

\* C8: with method "flexure" the deflection is linear in the load, and the
\* deflection of one loaded node p at a node q is load * dx * dy * 2 / gamma
\* times the symbol of the kernel-table entry at the absolute row and column
\* offset between p and q.
C8_FlexureLinear ==
    (pc = "idle" /\ lastOp = "update" /\ method = "flexure") =>
        /\ \A p \in Nodes(shape) :
               LET l2 == PointLoad(p, 1)
                   d2 == OneWorker(l2)
               IN  \A ab \in ScalarPairs :
                       OneWorker([n \in Nodes(shape) |->
                                     ab[1] * load[n] + ab[2] * l2[n]])
                           = [n \in Nodes(shape) |->
                                 VAdd(VScale(ab[1], deflection[n]),
                                      VScale(ab[2], d2[n]))]
        /\ \A p \in Nodes(shape) : Loaded = {p} =>
               \A q \in Nodes(shape) :
                   deflection[q] =
                       [one |-> RZero,
                        kei |-> {<<<<r[<<Abs(RowOf(shape, q) - RowOf(shape, p)),
                                        Abs(ColOf(shape, q) - ColOf(shape, p))>>],
                                     alpha>>,
                                   Rat(2 * load[p] * spacing[1] * spacing[2],
                                       gamma_mantle)>>}]

\* a flexural update() of a field with two loads on a grid of two rows and
\* two columns
C8_Witness ==
    /\ pc = "idle" /\ lastOp = "update" /\ method = "flexure"
    /\ shape = <<2, 2>> /\ Cardinality(Loaded) = 2

\* C9: what a solve leaves is a function of the load and the parameters, not
\* of what the output buffer held: load / gamma_mantle (Airy) or the
\* dispatcher's result on a buffer of zeros (flexure, subside_loads).
C9_NoStateBetweenSolves ==
    /\ (pc = "idle" /\ lastOp = "update") =>
           deflection = IF method = "airy"
                        THEN [n \in Nodes(shape) |-> VRat(Rat(load[n], gamma_mantle))]
                        ELSE OneWorker(load)
    /\ (pc = "idle" /\ lastOp = "subside_loads") =>
           LET res == OneWorker(load)
           IN  \A n \in Nodes(shape) : out.val[n] = res[n]

\* an update() of a loaded grid that began on a non-zero deflection field
C9_Witness ==
    /\ pc = "idle" /\ lastOp = "update" /\ preJunk /\ Loaded # {}
    /\ deflection # Zeros(shape)

\* the same for subside_loads with a buffer of the caller's
C9_WitnessOut ==
    /\ pc = "idle" /\ lastOp = "subside_loads" /\ out.kind = "caller"
    /\ Loaded # {}

\* C10: no step of update() or subside_loads() changes the load field;
\* subside_loads() leaves the grid's deflection field alone; neither changes
\* the grid or the component's parameters.
C10_LoadReadOnly ==
    [][lastOp' \in {"update", "subside_loads"} =>
           /\ load' = load
           /\ (lastOp' = "subside_loads" => deflection' = deflection)
           /\ UNCHANGED <<grid, hasDefl, params, eet, r>>]_vars

\* a finished subside_loads on a loaded grid whose cells are not unit squares
C10_Witness ==
    /\ pc = "idle" /\ lastOp = "subside_loads" /\ Loaded # {}
    /\ spacing[1] * spacing[2] > 1

====
